---- MODULE Spec2Model ----
(***************************************************************************)
(* The suggestion generator of the classroom backend (src/main.py,         *)
(* generate_suggestions and _within_prefs; src/schemas.py, the pydantic     *)
(* models Preference, Task, Event, Suggestion, SuggestionRequest).          *)
(*                                                                         *)
(* Instants are whole minutes counted from a Monday 00:00 UTC, so that     *)
(* datetime.weekday() and datetime.hour are arithmetic on the minute count; *)
(* a now with seconds behaves as a now that is not at the top of its hour.  *)
(* Stored instants are taken to compare with the call's UTC instants (the   *)
(* store handle, which decides whether datetimes come back timezone-aware,  *)
(* is not part of the sources).                                             *)
(* One behaviour is one POST /suggestions call against one store content.   *)
(***************************************************************************)
EXTENDS Integers, Sequences, FiniteSets

VARIABLES
    db_preference,  \* collection "preference": a set of stored documents
    db_task,        \* collection "task": documents in the order find() yields them
    db_event,       \* collection "event": documents in the order find() yields them
    clock,          \* what datetime.now(timezone.utc) answers during the call
    req,            \* the SuggestionRequest of the call
    pc,             \* position of the handler: idle, walk, serialize, returned, raised
    pref,           \* local pref   (main.py:368)
    tasks,          \* local tasks  (main.py:370, sorted at 392)
    busy,           \* local busy   (main.py:377)
    now,            \* local now    (main.py:373)
    horizon,        \* local horizon (main.py:374)
    cursor,         \* local cursor (main.py:400)
    suggestions,    \* local suggestions (main.py:397)
    out             \* local out    (main.py:420)

vars == <<db_preference, db_task, db_event, clock, req, pc, pref, tasks, busy,
          now, horizon, cursor, suggestions, out>>

-----------------------------------------------------------------------------
(* Bounds of the model *)

MaxHorizon == 1     \* horizon_days ranges over 0..MaxHorizon
MaxEvents == 1      \* at most this many stored events
MaxTasks == 2       \* at most this many stored tasks (specification SpecTasks)

(* Program constants *)

MaxSuggestions == 20        \* main.py:401  len(suggestions) < 20
StepMinutes == 30           \* main.py:417  cursor += timedelta(minutes=30)
SentinelDays == 365         \* main.py:394  now + timedelta(days=365)
MinutesPerHour == 60
MinutesPerDay == 1440

None == "None"              \* Python's None

-----------------------------------------------------------------------------
(* datetime arithmetic *)

\* datetime.hour
Hour(dt) == (dt % MinutesPerDay) \div MinutesPerHour

\* datetime.weekday(): 0 = Monday .. 6 = Sunday
Weekday(dt) == (dt \div MinutesPerDay) % 7

\* mutant: the hour is zeroed too, as by replace(hour=0, minute=0, ...)
TruncateToHour_to_midnight(dt) == dt - (dt % MinutesPerDay)

\* now.replace(minute=0, second=0, microsecond=0)
TruncateToHour(dt) == dt - (dt % MinutesPerHour)

\* Python's `x or d` on an int: d when x is falsy, and the only falsy int is 0
\* (earliest_hour and latest_hour are declared int, so Preference(**doc) admits
\* no None there)
PyOr(x, d) == IF x = 0 THEN d ELSE x

-----------------------------------------------------------------------------
(* pydantic models, src/schemas.py *)

\* mutant: the default availability covers the whole week
DefaultPreference_whole_week(user_id) ==
    [user_id |-> user_id,
     focus_period_minutes |-> 50,
     short_session_minutes |-> 25,
     preferred_time_of_day |-> None,
     availability_weekdays |-> {0, 1, 2, 3, 4, 5, 6},
     earliest_hour |-> 8,
     latest_hour |-> 22]

\* Preference(user_id=...) : every other field at its default
DefaultPreference(user_id) ==
    [user_id |-> user_id,
     focus_period_minutes |-> 50,
     short_session_minutes |-> 25,
     preferred_time_of_day |-> None,
     availability_weekdays |-> {0, 1, 2, 3, 4},
     earliest_hour |-> 8,
     latest_hour |-> 22]

PreferenceFields ==
    {"user_id", "focus_period_minutes", "short_session_minutes",
     "preferred_time_of_day", "availability_weekdays", "earliest_hour", "latest_hour"}

\* Preference(**doc): the declared fields of the document; a key that is no
\* field (Mongo's _id) is ignored, a field the document lacks takes its default
PreferenceModel(doc) ==
    [f \in PreferenceFields |->
        IF f \in DOMAIN doc THEN doc[f] ELSE DefaultPreference(doc.user_id)[f]]

\* The fields class Suggestion declares. related_task_id is not among them.
SuggestionFields == {"user_id", "title", "start", "end", "reason"}

\* Suggestion(**kwargs): a BaseModel keeps its declared fields only (pydantic's
\* default extra="ignore" drops every other keyword); reason defaults to None
SuggestionModel(kwargs) ==
    [f \in SuggestionFields |-> IF f \in DOMAIN kwargs THEN kwargs[f] ELSE None]

\* s.<name> on a model instance: defined exactly for the fields it holds;
\* any other attribute read raises AttributeError
HasAttr(s, name) == name \in DOMAIN s

-----------------------------------------------------------------------------
(* The store: db[...].find / find_one with the filter {"user_id": u} *)

RECURSIVE FindByUser(_, _)
FindByUser(coll, u) ==
    IF coll = <<>> THEN <<>>
    ELSE IF Head(coll).user_id = u
         THEN <<Head(coll)>> \o FindByUser(Tail(coll), u)
         ELSE FindByUser(Tail(coll), u)

\* find_one answers a document or None: Found tells which
Found(coll, u) == \E d \in coll : d.user_id = u

FindOneByUser(coll, u) == CHOOSE d \in coll : d.user_id = u

-----------------------------------------------------------------------------
(* _within_prefs, main.py:348-362 *)

\* mutant: the hour range is tested on the end of the slot as well
_within_prefs_end_too(dt, p) ==
    LET w == Weekday(dt)
        h == Hour(dt)
        he == Hour(dt + p.focus_period_minutes)
    IN  /\ (p.availability_weekdays # {} => w \in p.availability_weekdays)
        /\ ~(h < PyOr(p.earliest_hour, 0) \/ h >= PyOr(p.latest_hour, 24))
        /\ ~(he < PyOr(p.earliest_hour, 0) \/ he >= PyOr(p.latest_hour, 24))
        /\ (p.preferred_time_of_day = "morning" => (5 <= h /\ h < 12))
        /\ (p.preferred_time_of_day = "afternoon" => (12 <= h /\ h < 17))
        /\ (p.preferred_time_of_day = "evening" => (17 <= h /\ h < 22))
        /\ (p.preferred_time_of_day = "night" => (22 <= h \/ h < 5))

_within_prefs(dt, p) ==
    LET w == Weekday(dt)
        h == Hour(dt)
    IN  IF p.availability_weekdays # {} /\ w \notin p.availability_weekdays
            THEN FALSE
        ELSE IF h < PyOr(p.earliest_hour, 0) \/ h >= PyOr(p.latest_hour, 24)
            THEN FALSE
        ELSE IF p.preferred_time_of_day = "morning" /\ ~(5 <= h /\ h < 12)
            THEN FALSE
        ELSE IF p.preferred_time_of_day = "afternoon" /\ ~(12 <= h /\ h < 17)
            THEN FALSE
        ELSE IF p.preferred_time_of_day = "evening" /\ ~(17 <= h /\ h < 22)
            THEN FALSE
        ELSE IF p.preferred_time_of_day = "night" /\ ~(22 <= h \/ h < 5)
            THEN FALSE
        ELSE TRUE

(* is_free, main.py:381-385, over the busy list as it stands *)

\* mutant: a slot is taken to be busy only when its start lies inside an interval
is_free_start_only(start, end, busyList) ==
    \A i \in 1..Len(busyList) :
        ~(busyList[i][1] <= start /\ start < busyList[i][2])

\* mutant: the comparisons are strict, so a slot that only touches a busy
\* interval counts as overlapping it
is_free_strict(start, end, busyList) ==
    \A i \in 1..Len(busyList) :
        (end < busyList[i][1] \/ start > busyList[i][2])

is_free(start, end, busyList) ==
    \A i \in 1..Len(busyList) :
        (end <= busyList[i][1] \/ start >= busyList[i][2])

(* priority_value, main.py:388-390 *)

priority_value(p) ==
    LET key == IF p = None \/ p = "" THEN "medium" ELSE p
    IN  CASE key = "urgent" -> 3
          [] key = "high" -> 2
          [] key = "medium" -> 1
          [] key = "low" -> 0
          [] OTHER -> 1

\* t.get(k): None when the document lacks the key. A document whose value
\* under k is None is written here without the key: t.get(k) answers None for both
Get(t, k) == IF k \in DOMAIN t THEN t[k] ELSE None

\* mutant: a task without a due date counts as due now
DueOrSentinel_due_now(t, nowv) ==
    IF "due" \in DOMAIN t THEN t.due ELSE nowv

\* t.get("due") or now + timedelta(days=365): a datetime is never falsy
DueOrSentinel(t, nowv) ==
    IF "due" \in DOMAIN t THEN t.due ELSE nowv + SentinelDays * MinutesPerDay

(* the sort key of tasks.sort, main.py:392-395 *)

SortKey(t, nowv) ==
    <<0 - priority_value(Get(t, "priority")), DueOrSentinel(t, nowv)>>

\* tuple comparison a < b of two sort keys
KeyLess(a, b) == a[1] < b[1] \/ (a[1] = b[1] /\ a[2] < b[2])

\* list.sort is stable: an element goes behind every element whose key is not
\* greater than its own
RECURSIVE InsertByKey(_, _, _)
InsertByKey(t, sorted, nowv) ==
    IF sorted = <<>> THEN <<t>>
    ELSE IF KeyLess(SortKey(t, nowv), SortKey(Head(sorted), nowv))
         THEN <<t>> \o sorted
         ELSE <<Head(sorted)>> \o InsertByKey(t, Tail(sorted), nowv)

RECURSIVE SortTasks(_, _)
SortTasks(ts, nowv) ==
    IF ts = <<>> THEN <<>>
    ELSE InsertByKey(ts[Len(ts)], SortTasks(SubSeq(ts, 1, Len(ts) - 1), nowv), nowv)

-----------------------------------------------------------------------------
(* The inputs the model draws: store contents, clock and request *)

User == "u1"            \* the user the request is for
OtherUser == "u2"       \* a second user whose documents share the collections

Monday0900 == 9 * MinutesPerHour
Monday0940 == 9 * MinutesPerHour + 40
Friday0910 == 4 * MinutesPerDay + 9 * MinutesPerHour + 10
Saturday0940 == 5 * MinutesPerDay + 9 * MinutesPerHour + 40
Sunday2140 == 6 * MinutesPerDay + 21 * MinutesPerHour + 40

Clocks == {Monday0900, Monday0940, Friday0910, Sunday2140}

TimesOfDay == {None, "morning", "afternoon", "evening", "night"}
WeekdaySets == {{}, {0, 1, 2, 3, 4}}
HourRanges == {<<8, 22>>, <<9, 10>>, <<0, 0>>}
FocusPeriods == {25, 50, 90}

\* stored preference documents of User, every field within the values the
\* schema allows (POST /preferences on an existing document $sets a 0 as given)
PreferenceDocs ==
    {[_id |-> "p1", user_id |-> User, focus_period_minutes |-> f,
      short_session_minutes |-> 25, preferred_time_of_day |-> tod,
      availability_weekdays |-> wd, earliest_hour |-> hr[1], latest_hour |-> hr[2]] :
        f \in FocusPeriods, tod \in TimesOfDay, wd \in WeekdaySets, hr \in HourRanges}

OtherPreferenceDoc ==
    [_id |-> "p2", user_id |-> OtherUser, focus_period_minutes |-> 90,
     short_session_minutes |-> 25, preferred_time_of_day |-> "night",
     availability_weekdays |-> {5, 6}, earliest_hour |-> 1, latest_hour |-> 2]

\* events of User, placed relative to the clock c: the hour after next, the
\* last ten minutes of the current hour, and 10:15-10:45 of the next day
UserEvents(c) ==
    <<[user_id |-> User, title |-> "Lecture", start |-> c + 60, end |-> c + 120],
      [user_id |-> User, title |-> "Call",
       start |-> TruncateToHour(c) + 50, end |-> TruncateToHour(c) + 60],
      [user_id |-> User, title |-> "Lab",
       start |-> TruncateToHour(c) + MinutesPerDay + 75,
       end |-> TruncateToHour(c) + MinutesPerDay + 105]>>

OtherEvent(c) ==
    [user_id |-> OtherUser, title |-> "Trip", start |-> c - 60, end |-> c + 3 * MinutesPerDay]

\* strictly increasing index lists: one list per set of at most n events
RECURSIVE IndexLists(_, _)
IndexLists(lo, n) ==
    IF n = 0 THEN {<<>>}
    ELSE {<<>>} \cup UNION {{<<i>> \o r : r \in IndexLists(i + 1, n - 1)} : i \in lo..3}

EventCollections(c) ==
    {<<OtherEvent(c)>> \o [k \in 1..Len(ix) |-> UserEvents(c)[ix[k]]] :
        ix \in IndexLists(1, MaxEvents)}

Titles == <<"Read chapter", "Finish essay", "Revise notes", "Problem set">>
TitleAt(i) == Titles[((i - 1) % Len(Titles)) + 1]

\* Scenario D behind another user's task: a low task stored before an urgent one
BacklogD ==
    <<[_id |-> 1, user_id |-> OtherUser, title |-> "Other", priority |-> "urgent"],
      [_id |-> 2, user_id |-> User, title |-> "Read chapter", priority |-> "low"],
      [_id |-> 3, user_id |-> User, title |-> "Finish essay", priority |-> "urgent"]>>

Requests == [user_id : {User}, horizon_days : 0..MaxHorizon]

\* stored priorities: the four the schema names, and one no schema names (the
\* store enforces no shape; priority_value has a default for it). A task whose
\* priority or due is None is a document without that key.
Priorities == {"low", "medium", "high", "urgent", "someday"}
Dues(c) == {c + MinutesPerDay, c + 400 * MinutesPerDay}

TaskKinds(c) ==
    {[user_id |-> User, priority |-> p, due |-> d] : p \in Priorities, d \in Dues(c)}
    \cup {[user_id |-> User, priority |-> p] : p \in Priorities}
    \cup {[user_id |-> User, due |-> d] : d \in Dues(c)}
    \cup {[user_id |-> User],
          [user_id |-> OtherUser, priority |-> "urgent", due |-> c + MinutesPerDay]}

\* the document stored for a task of kind k at position i of the collection
TaskDoc(k, i) ==
    [f \in DOMAIN k \cup {"_id", "title"} |->
        IF f = "_id" THEN i ELSE IF f = "title" THEN TitleAt(i) ELSE k[f]]

TaskCollections(c) ==
    UNION {{[i \in 1..n |-> TaskDoc(ks[i], i)] : ks \in [1..n -> TaskKinds(c)]} :
              n \in 0..MaxTasks}

\* the locals before the handler has assigned them
Unset ==
    /\ pc = "idle"
    /\ pref = None /\ tasks = <<>> /\ busy = <<>>
    /\ now = 0 /\ horizon = 0 /\ cursor = 0
    /\ suggestions = <<>> /\ out = <<>>

Init ==
    /\ clock \in Clocks
    /\ req \in Requests
    /\ db_preference \in {{OtherPreferenceDoc}} \cup
                         {{OtherPreferenceDoc, d} : d \in PreferenceDocs}
    /\ db_task \in {<<>>, BacklogD}
    /\ db_event \in EventCollections(clock)
    /\ Unset

\* the backlog varies; no stored preference, no event of the user, horizon 0
InitTasks ==
    /\ clock \in {Monday0940, Saturday0940}
    /\ req = [user_id |-> User, horizon_days |-> 0]
    /\ db_preference = {OtherPreferenceDoc}
    /\ db_task \in TaskCollections(clock)
    /\ db_event = <<OtherEvent(clock)>>
    /\ Unset

-----------------------------------------------------------------------------
(* generate_suggestions, main.py:365-430 *)

\* main.py:367-400: resolve the preference, load tasks and events, capture now,
\* build busy, sort the tasks, place the cursor
Begin ==
    /\ pc = "idle"
    /\ pref' = IF Found(db_preference, req.user_id)
                  THEN PreferenceModel(FindOneByUser(db_preference, req.user_id))
                  ELSE DefaultPreference(req.user_id)
    /\ now' = clock
    /\ horizon' = clock + req.horizon_days * MinutesPerDay
    /\ LET events == FindByUser(db_event, req.user_id)
       IN  busy' = [i \in 1..Len(events) |-> <<events[i].start, events[i].end>>]
    /\ tasks' = SortTasks(FindByUser(db_task, req.user_id), clock)
    /\ suggestions' = <<>>
    /\ cursor' = TruncateToHour(clock)
    /\ pc' = "walk"
    /\ UNCHANGED <<db_preference, db_task, db_event, clock, req, out>>

\* str(picked.get("_id"))
Str(x) == <<"str", x>>

\* main.py:405-414: the suggestion built for an accepted slot
BuildSuggestion(user_id, taskList, start, end) ==
    IF taskList # <<>>
    THEN SuggestionModel([user_id |-> user_id,
                          title |-> <<"Work on: ", Get(taskList[1], "title")>>,
                          start |-> start, end |-> end,
                          related_task_id |-> Str(Get(taskList[1], "_id"))])
    ELSE SuggestionModel([user_id |-> user_id,
                          title |-> <<"Study Session">>,
                          start |-> start, end |-> end,
                          related_task_id |-> None])

\* mutant: the cap tested with <= lets a 21st suggestion in
WalkContinues_cap_off_by_one == cursor < horizon /\ Len(suggestions) <= MaxSuggestions

\* mutant: the horizon tested with <= admits the candidate at the horizon itself
WalkContinues_horizon_inclusive == cursor <= horizon /\ Len(suggestions) < MaxSuggestions

\* main.py:401 the loop condition
WalkContinues == cursor < horizon /\ Len(suggestions) < MaxSuggestions

\* main.py:402-403 the acceptance test of the candidate at the cursor
Accepts(c, p, busyList) ==
    _within_prefs(c, p) /\ is_free(c, c + p.focus_period_minutes, busyList)

\* mutant: the new suggestion is put in front of the list
AddSuggestion_in_front(list, s) == <<s>> \o list

\* main.py:414 suggestions.append(...)
AddSuggestion(list, s) == Append(list, s)

\* main.py:401-417: one iteration of the walk
WalkStep ==
    /\ pc = "walk"
    /\ WalkContinues
    /\ LET end_slot == cursor + pref.focus_period_minutes
       IN  IF Accepts(cursor, pref, busy)
           THEN /\ suggestions' = AddSuggestion(suggestions,
                                    BuildSuggestion(req.user_id, tasks, cursor, end_slot))
                /\ busy' = Append(busy, <<cursor, end_slot>>)
           ELSE UNCHANGED <<suggestions, busy>>
    /\ cursor' = cursor + StepMinutes
    /\ UNCHANGED <<db_preference, db_task, db_event, clock, req, pc, pref, tasks,
                   now, horizon, out>>

\* main.py:401 the loop condition fails; main.py:420 out = []
WalkExit ==
    /\ pc = "walk"
    /\ ~WalkContinues
    /\ out' = <<>>
    /\ pc' = "serialize"
    /\ UNCHANGED <<db_preference, db_task, db_event, clock, req, pref, tasks, busy,
                   now, horizon, cursor, suggestions>>

\* the attributes main.py:423-428 read of each suggestion
SerializedAttrs == {"user_id", "title", "start", "end", "related_task_id", "reason"}

\* main.py:421-429: one iteration of the serialisation loop; reading an
\* attribute the instance does not hold raises AttributeError out of the handler
SerializeStep ==
    /\ pc = "serialize"
    /\ Len(out) < Len(suggestions)
    /\ LET s == suggestions[Len(out) + 1]
       IN  IF \A a \in SerializedAttrs : HasAttr(s, a)
           THEN /\ out' = Append(out, [a \in SerializedAttrs |-> s[a]])
                /\ pc' = pc
           ELSE /\ pc' = "raised"
                /\ out' = out
    /\ UNCHANGED <<db_preference, db_task, db_event, clock, req, pref, tasks, busy,
                   now, horizon, cursor, suggestions>>

\* main.py:430 return out
Return ==
    /\ pc = "serialize"
    /\ Len(out) = Len(suggestions)
    /\ pc' = "returned"
    /\ UNCHANGED <<db_preference, db_task, db_event, clock, req, pref, tasks, busy,
                   now, horizon, cursor, suggestions, out>>

Next == Begin \/ WalkStep \/ WalkExit \/ SerializeStep \/ Return

Spec == Init /\ [][Next]_vars

SpecTasks == InitTasks /\ [][Next]_vars

-----------------------------------------------------------------------------
(* Vocabulary of the properties *)

Started == pc # "idle"
WalkOver == pc \in {"serialize", "returned", "raised"}

\* the half-open intervals [a1, a2) and [b1, b2) share an instant
Overlap(a1, a2, b1, b2) == a1 < b2 /\ b1 < a2

\* the stored events of the requesting user
EventsOfUser == {db_event[i] : i \in {k \in 1..Len(db_event) : db_event[k].user_id = req.user_id}}

\* the stored tasks of the requesting user
TasksOfUser == {db_task[i] : i \in {k \in 1..Len(db_task) : db_task[k].user_id = req.user_id}}

\* the stored preference of the requesting user, if any
StoredPreferences == {d \in db_preference : d.user_id = req.user_id}

\* the candidate starts of the walk: the top of the current hour plus k * 30 minutes
OnGrid(t) == t >= now - (now % 60) /\ (t - (now - (now % 60))) % 30 = 0

\* the lists a property speaks of: the suggestions the walk has accepted, and
\* the entries serialised from them for the response
Listed == {suggestions, out}

-----------------------------------------------------------------------------
\* C1: in one call no two suggestions overlap each other as half-open intervals,
\* and no suggestion overlaps a stored event of the user (in particular no
\* suggestion starts inside an event), for events with start < end and a
\* positive focus period.
C1_NoDoubleBooking ==
    \A list \in Listed :
        /\ \A i, j \in 1..Len(list) :
              i # j => ~Overlap(list[i].start, list[i].end, list[j].start, list[j].end)
        /\ \A i \in 1..Len(list) : \A e \in EventsOfUser :
              /\ ~Overlap(list[i].start, list[i].end, e.start, e.end)
              /\ ~(e.start <= list[i].start /\ list[i].start < e.end)

\* C1 witness: the walk is over with two suggestions accepted around a stored
\* event of the user, and a candidate the preference admits fell on that event.
C1_Witness ==
    /\ WalkOver
    /\ Len(suggestions) >= 2
    /\ \E e \in EventsOfUser :
          /\ e.start < e.end
          /\ \E i, j \in 1..Len(suggestions) :
                suggestions[i].end <= e.start /\ e.end <= suggestions[j].start
          /\ \E c \in e.start - 60 .. e.end :
                /\ OnGrid(c) /\ c < cursor
                /\ _within_prefs(c, pref)
                /\ Overlap(c, c + pref.focus_period_minutes, e.start, e.end)

\* C2 (as claimed): every suggestion satisfies the resolved preference: weekday
\* in availability_weekdays when that is non-empty, earliest_hour <= start.hour
\* < latest_hour, and start.hour in the band of preferred_time_of_day when set.
C2_PreferenceRespected ==
    Started =>
        \A list \in Listed : \A i \in 1..Len(list) :
            LET h == Hour(list[i].start)
                tod == pref.preferred_time_of_day
            IN  /\ pref.availability_weekdays # {}
                      => Weekday(list[i].start) \in pref.availability_weekdays
                /\ pref.earliest_hour <= h /\ h < pref.latest_hour
                /\ tod = "morning" => (5 <= h /\ h < 12)
                /\ tod = "afternoon" => (12 <= h /\ h < 17)
                /\ tod = "evening" => (17 <= h /\ h < 22)
                /\ tod = "night" => ((22 <= h /\ h < 24) \/ (0 <= h /\ h < 5))

\* C3: at every step of the walk at most 20 suggestions are accumulated, and at
\* most 20 entries are returned.
C3_AtMostTwenty ==
    \A list \in Listed : Len(list) <= 20

\* C3 witness: the walk stopped on the cap, with candidates left below the horizon.
C3_Witness ==
    /\ WalkOver
    /\ Len(suggestions) = 20
    /\ cursor < horizon

\* C4 (as claimed): every suggestion starts inside [now, now + horizon_days).
C4_StartWithinWindow ==
    Started =>
        \A list \in Listed : \A i \in 1..Len(list) :
            /\ now <= list[i].start
            /\ list[i].start < now + req.horizon_days * 1440

\* C4 (amended): every suggestion starts at or after the top of the hour that
\* contains now, and before now + horizon_days.
C4_StartWithinWalkedWindow ==
    Started =>
        \A list \in Listed : \A i \in 1..Len(list) :
            /\ now - (now % 60) <= list[i].start
            /\ list[i].start < now + req.horizon_days * 1440

\* C4 witness: a call whose now is not at the top of an hour accepted a slot
\* that starts before now and another that starts in the last hour of the window.
C4_Witness ==
    /\ WalkOver
    /\ now % 60 # 0
    /\ \E i, j \in 1..Len(suggestions) :
          /\ suggestions[i].start < now
          /\ suggestions[j].start >= now + req.horizon_days * 1440 - 60

\* C5: the suggestions are in non-decreasing order of start, and serialisation
\* keeps the order in which the walk accepted them.
C5_OrderedByStart ==
    /\ \A list \in Listed : \A i, j \in 1..Len(list) :
          i < j => list[i].start <= list[j].start
    /\ Len(out) <= Len(suggestions)
    /\ \A k \in 1..Len(out) : out[k].start = suggestions[k].start

\* C5 witness: the walk is over with at least three suggestions accepted.
C5_Witness ==
    /\ WalkOver
    /\ Len(suggestions) >= 3
    /\ suggestions[1].start < suggestions[3].start

-----------------------------------------------------------------------------
\* the rank the claims give a task: urgent 3, high 2, medium 1, low 0, and
\* medium for a missing or unrecognised priority
RankOf(t) ==
    IF "priority" \notin DOMAIN t THEN 1
    ELSE IF t.priority = "urgent" THEN 3
    ELSE IF t.priority = "high" THEN 2
    ELSE IF t.priority = "low" THEN 0
    ELSE 1

HasDue(t) == "due" \in DOMAIN t

\* the task the title of a suggestion names
TitledAfter(s, t) == s.title = <<"Work on: ", t.title>>

\* C6 (as claimed): the head of the sorted tasks, which every accepted slot is
\* titled after, has maximal rank, and among the tasks of that rank the earliest
\* due date, a task without a due date coming after every task of its rank that
\* has one.
C6_HeadIsMostUrgent ==
    (Started /\ TasksOfUser # {}) =>
        /\ tasks # <<>>
        /\ tasks[1] \in TasksOfUser
        /\ \A i \in 1..Len(suggestions) : TitledAfter(suggestions[i], tasks[1])
        /\ \A u \in TasksOfUser : RankOf(u) <= RankOf(tasks[1])
        /\ \A u \in TasksOfUser :
              (RankOf(u) = RankOf(tasks[1]) /\ HasDue(u))
                  => (HasDue(tasks[1]) /\ tasks[1].due <= u.due)

\* C6 (amended): as claimed, except that a task without a due date counts as due
\* at now + 365 days: it comes after the tasks of its rank due before that
\* instant, and before those due after it.
C6_HeadIsMostUrgentWithSentinel ==
    (Started /\ TasksOfUser # {}) =>
        /\ tasks # <<>>
        /\ tasks[1] \in TasksOfUser
        /\ \A i \in 1..Len(suggestions) : TitledAfter(suggestions[i], tasks[1])
        /\ \A u \in TasksOfUser : RankOf(u) <= RankOf(tasks[1])
        /\ \A u \in TasksOfUser :
              RankOf(u) = RankOf(tasks[1]) =>
                  /\ (HasDue(tasks[1]) /\ HasDue(u)) => tasks[1].due <= u.due
                  /\ (HasDue(tasks[1]) /\ ~HasDue(u)) => tasks[1].due <= now + 365 * 1440
                  /\ (~HasDue(tasks[1]) /\ HasDue(u)) => u.due >= now + 365 * 1440

\* C6 witness: a slot was accepted and titled after the task stored second, which
\* is due tomorrow and has the rank of the task stored first, which has no due date.
C6_Witness ==
    /\ WalkOver
    /\ Len(suggestions) >= 1
    /\ Len(db_task) = 2
    /\ db_task[1].user_id = req.user_id /\ db_task[2].user_id = req.user_id
    /\ RankOf(db_task[1]) = RankOf(db_task[2])
    /\ ~HasDue(db_task[1])
    /\ HasDue(db_task[2]) /\ db_task[2].due < now + 365 * 1440
    /\ tasks[1] = db_task[2]
    /\ TitledAfter(suggestions[1], db_task[2])

C8_AtMostCandidatesOfWindow ==
    Started => \A list \in Listed : Len(list) <= 48 * req.horizon_days

\* C8 (amended): the number of suggestions never exceeds the number of
\* 30-minute candidates from the top of the hour that contains now up to
\* now + horizon_days: 48 * horizon_days, plus one when now is past the top of
\* its hour, plus one more when it is more than 30 minutes past it.
C8_AtMostCandidatesWalked ==
    Started =>
        \A list \in Listed :
            Len(list) <= 48 * req.horizon_days
                         + (IF now % 60 > 0 THEN 1 ELSE 0)
                         + (IF now % 60 > 30 THEN 1 ELSE 0)

\* C8 witness: a call with horizon_days = 0, made 40 minutes into an hour,
\* accepted the two candidates of that hour.
C8_Witness ==
    /\ WalkOver
    /\ req.horizon_days = 0
    /\ now % 60 > 30
    /\ Len(suggestions) = 2

\* Scenario A: no stored preference, no tasks, no events, horizon_days = 1
ScenarioA ==
    /\ WalkOver
    /\ StoredPreferences = {} /\ TasksOfUser = {} /\ EventsOfUser = {}
    /\ req.horizon_days = 1

ScenarioB ==
    /\ Started
    /\ StoredPreferences # {}
    /\ pref.earliest_hour = 9 /\ pref.latest_hour = 10
    /\ pref.focus_period_minutes = 50
    /\ EventsOfUser = {}
    /\ req.horizon_days = 1

\* the weekday and the time-of-day band of the preference admit 9 o'clock of
\* the day of instant t
DayAdmitsNine(t) ==
    /\ pref.availability_weekdays # {} => Weekday(t) \in pref.availability_weekdays
    /\ pref.preferred_time_of_day \in {None, "morning"}

\* C10: in Scenario B no two suggestions lie on one calendar day and none starts
\* at 9:30; the 9:30 candidate passes the preference filter wherever the 9:00
\* candidate of its day does (the hour test reads the start of the slot, not
\* its end 10:20), and when it passes, the slot 9:00-9:50 of that day has been
\* accepted and overlaps it.
C10_ScenarioB_OnePerDay ==
    ScenarioB =>
        /\ \A i, j \in 1..Len(suggestions) :
              i # j => suggestions[i].start \div 1440 # suggestions[j].start \div 1440
        /\ \A i \in 1..Len(suggestions) : suggestions[i].start % 1440 # 9 * 60 + 30
        /\ (pc = "walk" /\ WalkContinues /\ cursor % 1440 = 9 * 60 + 30) =>
              /\ _within_prefs(cursor, pref) = DayAdmitsNine(cursor)
              /\ _within_prefs(cursor, pref) =>
                    \E i \in 1..Len(suggestions) :
                        /\ suggestions[i].start = cursor - 30
                        /\ suggestions[i].end = cursor + 20
                        /\ Overlap(cursor, cursor + 50,
                                   suggestions[i].start, suggestions[i].end)

\* C10 witness: Scenario B over two days: the walk is over, it accepted 9:00 on
\* both days, and the 9:30 candidates in between passed the preference filter.
C10_Witness ==
    /\ ScenarioB
    /\ WalkOver
    /\ Len(suggestions) = 2
    /\ suggestions[1].start % 1440 = 9 * 60
    /\ suggestions[2].start = suggestions[1].start + 1440
    /\ _within_prefs(suggestions[1].start + 30, pref)
    /\ Hour(suggestions[1].start + 30 + pref.focus_period_minutes) >= pref.latest_hour

-----------------------------------------------------------------------------
\* the slot of the candidate at instant c shares an instant with a stored event
\* of the user
HitsEvent(c) ==
    \E e \in EventsOfUser :
        Overlap(c, c + pref.focus_period_minutes, e.start, e.end)

\* the slot of the candidate at instant c shares an instant with a slot
\* accepted before the walk came to c
HitsEarlierSlot(c) ==
    \E i \in 1..Len(suggestions) :
        /\ suggestions[i].start < c
        /\ Overlap(c, c + pref.focus_period_minutes,
                   suggestions[i].start, suggestions[i].end)

\* C11: the walk is greedy and complete. It starts at the top of the hour that
\* contains now, every iteration visits the candidate at the cursor and moves
\* the cursor on by exactly 30 minutes, and it stops only at the horizon or at
\* 20 suggestions; a visited candidate is left out only if it fails the
\* preference filter or its slot overlaps a stored event of the user or a slot
\* accepted earlier in the call, and every other visited candidate is appended
\* as a suggestion; no accepted suggestion is ever dropped or reordered.
C11_GreedyAndComplete ==
    [][/\ (pc = "idle" /\ pc' = "walk") =>
              /\ cursor' = clock - (clock % 60)
              /\ suggestions' = <<>>
       /\ (pc = "walk" /\ pc' = "walk") =>
              /\ cursor < horizon /\ Len(suggestions) < 20
              /\ cursor' = cursor + 30
              /\ \/ suggestions' = suggestions
                 \/ /\ Len(suggestions') = Len(suggestions) + 1
                    /\ SubSeq(suggestions', 1, Len(suggestions)) = suggestions
                    /\ suggestions'[Len(suggestions')].start = cursor
                    /\ suggestions'[Len(suggestions')].end
                           = cursor + pref.focus_period_minutes
              /\ suggestions' = suggestions =>
                    \/ ~_within_prefs(cursor, pref)
                    \/ HitsEvent(cursor)
                    \/ HitsEarlierSlot(cursor)
       /\ (pc = "walk" /\ pc' # "walk") =>
              /\ cursor >= horizon \/ Len(suggestions) >= 20
              /\ suggestions' = suggestions /\ cursor' = cursor
      ]_vars

\* C11 witness: the walk reached the horizon below the cap, having accepted
\* slots and left out one candidate for each reason: one the preference
\* rejects, one the preference admits that falls on a stored event, and one
\* the preference admits that falls on an earlier slot and on no event.
C11_Witness ==
    /\ WalkOver
    /\ cursor >= horizon
    /\ Len(suggestions) >= 2 /\ Len(suggestions) < 20
    /\ \E c1, c2, c3 \in {c \in (now - 60)..(horizon - 1) : OnGrid(c)} :
          /\ \A c \in {c1, c2, c3} :
                \A i \in 1..Len(suggestions) : suggestions[i].start # c
          /\ ~_within_prefs(c1, pref)
          /\ _within_prefs(c2, pref) /\ HitsEvent(c2) /\ ~HitsEarlierSlot(c2)
          /\ _within_prefs(c3, pref) /\ HitsEarlierSlot(c3) /\ ~HitsEvent(c3)

====
